---- MODULE Spec2Model ----
(***************************************************************************)
(* Handle lifecycle of the XGBoost wrapper (src/src/model.rs): Booster     *)
(* load / load_from_buffer / predict / num_features / save / Drop, run by  *)
(* a small number of caller threads against the native engine's handle     *)
(* tables.  A step is one native call of the wrapper (or the path          *)
(* validation that precedes the first one), so that the order of native    *)
(* calls and every early return of the `?` operator is visible.            *)
(* The DataFrame calls (src/src/polars_ext.rs) run dataframe_to_dense one  *)
(* loop turn per step and then enter predict.                              *)
(***************************************************************************)
EXTENDS Integers, Sequences, FiniteSets

\* ---------------------------------------------------------------- bounds
NumThreads == 2
MaxModels == 2
MaxBoosters == 2
MaxMatrices == 2
MaxPathLen == 1
MaxRows == 2
MaxFeatures == 2
MaxLen == 2
MaxNumFeatures == 2
MaxValue == 2
MaxNulls == 2
MaxHeight == 3

\* ------------------------------------------------------ program constants
NullHandle == 0
Shared == 0
MainThread == 1

\* Path bytes: the C string terminator, an ASCII letter, and a byte that
\* occurs in no UTF-8 encoding.
NUL == "\\0"
ByteA == "a"
ByteB == "b"
ByteInvalid == "\\xFF"

Threads == 1..NumThreads
ModelIds == 1..MaxModels
BoosterHandles == 1..MaxBoosters
MatrixHandles == 1..MaxMatrices

PathBytes == {NUL, ByteA, ByteInvalid}
Paths == UNION {[1..n -> PathBytes] : n \in 0..MaxPathLen}
Buffers == {"valid", "corrupted"}

\* The files of the two models a caller works with, and every name the
\* engine may be asked to open: a path that passed both conversions.
FilePaths == {<<ByteA>>, <<ByteB>>}

\* ------------------------------------------------------- path validation
\* Path::to_str: Some iff the bytes are valid UTF-8 (0xFF never is; NUL and
\* 'a' are one-byte code points).
ToStrOk(path) == \A i \in 1..Len(path) : path[i] # ByteInvalid

\* CString::new: Err iff the string has an interior NUL byte.
CStringNewOk(path) == \A i \in 1..Len(path) : path[i] # NUL

\* The description of the error load/save return before any native call,
\* "" when the path passes both conversions.
PathErrorRejectEmpty(path) ==
    IF ~ToStrOk(path) THEN "Path contains invalid UTF-8 characters"
    ELSE IF ~CStringNewOk(path) \/ path = <<>> THEN "Path contains NUL byte"
    ELSE ""

PathErrorNoNulCheck(path) ==
    IF ~ToStrOk(path) THEN "Path contains invalid UTF-8 characters"
    ELSE ""

PathError(path) ==
    IF ~ToStrOk(path) THEN "Path contains invalid UTF-8 characters"
    ELSE IF ~CStringNewOk(path) THEN "Path contains NUL byte"
    ELSE ""

\* The error taxonomy of the description strings.
ErrorClass(description) ==
    IF description = "" THEN "Ok"
    ELSE IF description \in {"Path contains invalid UTF-8 characters",
                             "Path contains NUL byte"} THEN "InvalidPath"
    ELSE IF description = "DataFrame has zero rows or columns" THEN "EmptyInput"
    ELSE IF description = "Null value at row {}, col {}" THEN "NullValue"
    ELSE IF description = "Failed to select columns: {}" THEN "ColumnNotFound"
    ELSE IF description = "Failed to cast column to f32: {}" THEN "CastFailure"
    ELSE "NativeCallFailure"

\* Every name the engine may be asked to open or to write.
FileNames == FilePaths \cup {path \in Paths : PathError(path) = "" /\ path # <<>>}

\* The feature count of the model a byte buffer holds (0: no model).
BufferModel(bytes) == IF bytes = "valid" THEN 1 ELSE 0

\* ------------------------------------------------------------------ state
VARIABLES
    boosterState,   \* native: booster handle -> "none" | "created" | "loaded" | "freed"
    boosterFrees,   \* native: booster handle -> number of XGBoosterFree calls on it
    matrixState,    \* native: matrix handle -> "none" | "live" | "freed"
    outBuf,         \* native: booster handle -> thread whose prediction its output buffer holds
    lastError,      \* native: the process-global last-error message, named by the
                    \* thread whose failed call wrote it (NoError: none yet)
    content,        \* native: booster handle -> feature count of the model loaded
                    \* into it (0: none)
    files,          \* file name -> feature count of the model stored there (0: no model)
    models,         \* Booster values: state, handle, owner (a thread, or Shared)
    lock,           \* the Mutex around a shared Booster: holder thread, 0 when free
    pc,             \* per thread: position inside the running operation
    frame,          \* per thread: arguments and locals of the running operation
    result,         \* per thread: what the last finished operation returned
    kept,           \* per thread: an earlier prediction the caller has kept
    df,             \* the caller's DataFrame
    columns,        \* the caller's list of column names
    bpc,            \* position inside the running DataFrame call
    bframe,         \* arguments and locals of the running DataFrame call
    dense           \* what dataframe_to_dense, or the select before it, returned

bridgeVars == <<df, columns, bpc, bframe, dense>>

vars == <<boosterState, boosterFrees, matrixState, outBuf, lastError,
          content, files, models, lock, pc, frame, result, kept, bridgeVars>>

NoError == 0

\* data .. training: the arguments of predict.  matrix: the cells the engine
\* copied into the DMatrix of this call.  out, outLen: out_result and out_len
\* as XGBoosterPredict left them.  value, count: what predict and
\* num_features return on Ok.
\* checked: the native calls whose status went through check_return_value.
NoFrame == [op |-> "none", m |-> 0, path |-> <<>>, bytes |-> "none",
            len |-> 0, rows |-> 0, features |-> 0,
            data |-> <<>>, mask |-> <<0, 0>>, training |-> FALSE,
            matrix |-> <<>>, out |-> <<>>, outLen |-> 0, value |-> <<>>,
            count |-> 0,
            handle |-> NullHandle, dmatrix |-> NullHandle, calls |-> <<>>,
            checked |-> <<>>]

NoResult == [op |-> "none", m |-> 0, path |-> <<>>, bytes |-> "none",
             data |-> <<>>, rows |-> 0, features |-> 0, mask |-> <<0, 0>>,
             training |-> FALSE, outLen |-> 0, value |-> <<>>, count |-> 0,
             handle |-> NullHandle, dmatrix |-> NullHandle, calls |-> <<>>,
             checked |-> <<>>, description |-> "", message |-> NoError]

\* No DataFrame call is running or has returned; the caller holds an empty
\* DataFrame and an empty list of names.
NoBFrame == [op |-> "none", m |-> 0, table |-> <<>>, rows |-> 0, features |-> 0,
             col |-> 0, row |-> 0, series |-> <<>>, data |-> <<>>, writes |-> <<>>]

NoDense == [op |-> "none", status |-> "none", description |-> "", row |-> 0, col |-> 0,
            data |-> <<>>, rows |-> 0, features |-> 0, writes |-> <<>>]

NoDataFrame ==
    /\ df = <<>>
    /\ columns = <<>>
    /\ bpc = "idle"
    /\ bframe = NoBFrame
    /\ dense = NoDense

NoModel == [state |-> "Uninitialized", handle |-> NullHandle, owner |-> Shared]

Init ==
    /\ boosterState = [h \in BoosterHandles |-> "none"]
    /\ boosterFrees = [h \in BoosterHandles |-> 0]
    /\ matrixState = [d \in MatrixHandles |-> "none"]
    /\ outBuf = [h \in BoosterHandles |-> 0]
    /\ lastError = NoError
    /\ content = [h \in BoosterHandles |-> 0]
    /\ files = [name \in FileNames |-> 1]
    /\ models = [m \in ModelIds |-> NoModel]
    /\ lock = [m \in ModelIds |-> 0]
    /\ pc = [t \in Threads |-> "idle"]
    /\ frame = [t \in Threads |-> NoFrame]
    /\ result = [t \in Threads |-> NoResult]
    /\ kept = [t \in Threads |-> NoResult]
    /\ NoDataFrame


\* ---------------------------------------------------------------- helpers
\* The handle the native allocator returns next: handles are never reused.
FreshBooster == CHOOSE h \in BoosterHandles :
    boosterState[h] = "none" /\ \A g \in BoosterHandles : g < h => boosterState[g] # "none"

FreshMatrix == CHOOSE d \in MatrixHandles :
    matrixState[d] = "none" /\ \A g \in MatrixHandles : g < d => matrixState[g] # "none"

\* The slot the Booster value built by a successful load occupies.
FreshModel == CHOOSE m \in ModelIds :
    models[m].state = "Uninitialized"
    /\ \A n \in ModelIds : n < m => models[n].state # "Uninitialized"

LoadPcs == {"create_booster", "load_model", "load_model_buffer"}

Loading == {t \in Threads : pc[t] \in LoadPcs \/ (pc[t] = "translate" /\ frame[t].m = 0)}

\* A load may start while a slot is left for the Booster it may build.
SlotLeft == Cardinality({m \in ModelIds : models[m].state = "Uninitialized"})
                > Cardinality(Loading)

\* &self is available to thread t: it owns the Booster, or the Booster is
\* behind the Mutex and the Mutex is free.
CanCall(t, m) ==
    /\ pc[t] = "idle"
    /\ models[m].state = "Ready"
    /\ \/ models[m].owner = t
       \/ models[m].owner = Shared /\ lock[m] = 0

\* lock().unwrap() of a shared Booster, held for the whole call.
Acquire(t, m) == [lock EXCEPT ![m] = IF models[m].owner = Shared THEN t ELSE @]

\* A native call whose status is dropped, and one whose status is handed to
\* check_return_value.
Called(f, call) == [f EXCEPT !.calls = Append(@, call)]

Checked(f, call) == [Called(f, call) EXCEPT !.checked = Append(@, call)]

\* Thread t enters an operation with frame f; what the last one returned is gone.
Begin(t, f, at) ==
    /\ pc' = [pc EXCEPT ![t] = at]
    /\ frame' = [frame EXCEPT ![t] = f]
    /\ result' = [result EXCEPT ![t] = NoResult]

\* The operation of thread t returns: f is its final frame.
Finish(t, f, description, message) ==
    /\ pc' = [pc EXCEPT ![t] = "idle"]
    /\ frame' = [frame EXCEPT ![t] = NoFrame]
    /\ result' = [result EXCEPT ![t] =
            [op |-> f.op, m |-> f.m, path |-> f.path, bytes |-> f.bytes,
             data |-> f.data, rows |-> f.rows, features |-> f.features,
             mask |-> f.mask, training |-> f.training, outLen |-> f.outLen,
             value |-> f.value, count |-> f.count,
             handle |-> f.handle, dmatrix |-> f.dmatrix, calls |-> f.calls,
             checked |-> f.checked,
             description |-> description, message |-> message]]
    /\ lock' = [m \in ModelIds |-> IF lock[m] = t THEN 0 ELSE lock[m]]

\* A native call of thread t returned a non-zero status: the engine sets its
\* last-error message, and check_return_value goes on to read it.
NativeFail(t, f, call) ==
    /\ lastError' = t
    /\ pc' = [pc EXCEPT ![t] = "translate"]
    /\ frame' = [frame EXCEPT ![t] = Checked(f, call)]
    /\ UNCHANGED result

\* XGBoosterFree / XGDMatrixFree on the native tables.
BoosterFreed(h) == [boosterState EXCEPT ![h] = "freed"]
MatrixFreed(d) == [matrixState EXCEPT ![d] = "freed"]

\* ------------------------------------------------------------------ load
\* Booster::load up to its first native call: the two path conversions.
LoadBegin(t, path) ==
    /\ pc[t] = "idle"
    /\ SlotLeft
    /\ LET f == [NoFrame EXCEPT !.op = "load", !.path = path] IN
       \/ /\ PathError(path) # ""
          /\ Finish(t, f, PathError(path), NoError)
          /\ UNCHANGED <<boosterState, boosterFrees, matrixState, outBuf, content, files, kept, bridgeVars, lastError, models>>
       \/ /\ PathError(path) = ""
          /\ Begin(t, f, "create_booster")
          /\ UNCHANGED <<boosterState, boosterFrees, matrixState, outBuf, content, files, kept, bridgeVars, lastError,
                         models, lock>>

\* Booster::load_from_buffer up to its first native call.
LoadFromBufferBegin(t, bytes) ==
    /\ pc[t] = "idle"
    /\ SlotLeft
    /\ Begin(t, [NoFrame EXCEPT !.op = "load_from_buffer", !.bytes = bytes], "create_booster")
    /\ UNCHANGED <<boosterState, boosterFrees, matrixState, outBuf, content, files, kept, bridgeVars, lastError,
                   models, lock>>

\* XGBoosterCreate(null, 0, &mut handle), checked.
CreateBooster(t) ==
    /\ pc[t] = "create_booster"
    /\ \/ /\ \E h \in BoosterHandles : boosterState[h] = "none"
          /\ boosterState' = [boosterState EXCEPT ![FreshBooster] = "created"]
          /\ frame' = [frame EXCEPT ![t] =
                 [Checked(@, "XGBoosterCreate") EXCEPT !.handle = FreshBooster]]
          /\ pc' = [pc EXCEPT ![t] =
                 IF frame[t].op = "load" THEN "load_model" ELSE "load_model_buffer"]
          /\ UNCHANGED <<lastError, result>>
       \/ /\ NativeFail(t, frame[t], "XGBoosterCreate")
          /\ UNCHANGED boosterState
    /\ UNCHANGED <<boosterFrees, matrixState, outBuf, content, files, kept, bridgeVars, models, lock>>

\* Ok(Booster { handle }): the new value, owned by the thread that loaded it.
Constructed(t, f) ==
    /\ boosterState' = [boosterState EXCEPT ![f.handle] = "loaded"]
    /\ content' = [content EXCEPT ![f.handle] =
           IF f.op = "load" THEN files[f.path] ELSE BufferModel(f.bytes)]
    /\ models' = [models EXCEPT ![FreshModel] =
           [state |-> "Ready", handle |-> f.handle, owner |-> t]]
    /\ Finish(t, [f EXCEPT !.m = FreshModel], "", NoError)
    /\ UNCHANGED lastError

ConstructedOnFailure(t, f, call) ==
    /\ models' = [models EXCEPT ![FreshModel] =
           [state |-> "Ready", handle |-> f.handle, owner |-> t]]
    /\ Finish(t, [Checked(f, call) EXCEPT !.m = FreshModel], "", NoError)
    /\ UNCHANGED <<boosterState, content, lastError>>

LoadFailedKeepsBooster(t, f, call) ==
    /\ NativeFail(t, f, call)
    /\ models' = [models EXCEPT ![FreshModel] =
           [state |-> "Ready", handle |-> f.handle, owner |-> t]]
    /\ UNCHANGED <<boosterState, content, lock>>

\* The `?` after a failed load call: the error is returned as it is.
LoadFailed(t, f, call) ==
    /\ NativeFail(t, f, call)
    /\ UNCHANGED <<boosterState, content, models, lock>>

\* XGBoosterLoadModel(handle, path), checked, then Ok(Booster { handle }).
\* No file has the empty name, so the engine fails to open it; any other
\* file may hold a model, and reading it may still fail.
LoadModel(t) ==
    /\ pc[t] = "load_model"
    /\ \/ /\ frame[t].path \in FileNames
          /\ files[frame[t].path] > 0
          /\ Constructed(t, Checked(frame[t], "XGBoosterLoadModel"))
       \/ LoadFailed(t, frame[t], "XGBoosterLoadModel")
    /\ UNCHANGED <<boosterFrees, matrixState, outBuf, files, kept, bridgeVars>>

\* XGBoosterLoadModelFromBuffer(handle, ptr, len), checked, then
\* Ok(Booster { handle }).  The engine rejects bytes that are no model.
LoadModelFromBuffer(t) ==
    /\ pc[t] = "load_model_buffer"
    /\ \/ /\ BufferModel(frame[t].bytes) > 0
          /\ Constructed(t, Checked(frame[t], "XGBoosterLoadModelFromBuffer"))
       \/ LoadFailed(t, frame[t], "XGBoosterLoadModelFromBuffer")
    /\ UNCHANGED <<boosterFrees, matrixState, outBuf, files, kept, bridgeVars>>

\* check_return_value on a non-zero status: XGBGetLastError is read and the
\* error is returned by `?`, with no other statement of the operation run.
Translate(t) ==
    /\ pc[t] = "translate"
    /\ Finish(t, frame[t], "XGBoost error", lastError)
    /\ UNCHANGED <<boosterState, boosterFrees, matrixState, outBuf, content, files, kept, bridgeVars, lastError, models>>


\* --------------------------------------------------------------- predict
\* self.handle of the running operation of thread t.
SelfHandle(t) == models[frame[t].m].handle

\* Booster::predict up to its first native call: nothing is checked.
PredictBegin(t, m, data, rows, features, mask, training) ==
    /\ CanCall(t, m)
    /\ \E d \in MatrixHandles : matrixState[d] = "none"
    /\ Begin(t, [NoFrame EXCEPT !.op = "predict", !.m = m, !.data = data,
                    !.len = Len(data), !.rows = rows, !.features = features,
                    !.mask = mask, !.training = training], "create_matrix")
    /\ lock' = Acquire(t, m)
    /\ UNCHANGED <<boosterState, boosterFrees, matrixState, outBuf, content, files, kept, lastError, models>>

\* The cells the engine reads through data.as_ptr(): num_rows * num_features
\* of them, row after row.  A cell past the end of the slice is whatever the
\* memory behind it holds.
MatrixCells(data, rows, features, beyond) ==
    [i \in 1..(rows * features) |-> IF i <= Len(data) THEN data[i] ELSE beyond]

\* XGDMatrixCreateFromMat(data, num_rows, num_features, NaN, &mut dmatrix), checked.
CreateMatrixUnchecked(t, beyond) ==
    /\ pc[t] = "create_matrix"
    /\ \/ /\ \E d \in MatrixHandles : matrixState[d] = "none"
          /\ matrixState' = [matrixState EXCEPT ![FreshMatrix] = "live"]
          /\ frame' = [frame EXCEPT ![t] =
                 [Called(@, "XGDMatrixCreateFromMat") EXCEPT
                     !.dmatrix = FreshMatrix,
                     !.matrix = MatrixCells(frame[t].data, frame[t].rows,
                                            frame[t].features, beyond)]]
          /\ UNCHANGED lastError
       \/ /\ lastError' = t
          /\ frame' = [frame EXCEPT ![t] = Called(@, "XGDMatrixCreateFromMat")]
          /\ UNCHANGED matrixState
    /\ pc' = [pc EXCEPT ![t] = "predict"]
    /\ UNCHANGED <<boosterState, boosterFrees, outBuf, content, files, kept, bridgeVars, models,
                   lock, result>>

CreateMatrix(t, beyond) ==
    /\ pc[t] = "create_matrix"
    /\ \/ /\ \E d \in MatrixHandles : matrixState[d] = "none"
          /\ matrixState' = [matrixState EXCEPT ![FreshMatrix] = "live"]
          /\ frame' = [frame EXCEPT ![t] =
                 [Checked(@, "XGDMatrixCreateFromMat") EXCEPT
                     !.dmatrix = FreshMatrix,
                     !.matrix = MatrixCells(frame[t].data, frame[t].rows,
                                            frame[t].features, beyond)]]
          /\ pc' = [pc EXCEPT ![t] = "predict"]
          /\ UNCHANGED <<lastError, result>>
       \/ /\ NativeFail(t, frame[t], "XGDMatrixCreateFromMat")
          /\ UNCHANGED matrixState
    /\ UNCHANGED <<boosterState, boosterFrees, outBuf, content, files, kept, bridgeVars, models, lock>>

\* XGBoosterPredict(self.handle, dmatrix, option_mask, 0, training, &out_len,
\* &out_result), checked: the result is left in a buffer the booster owns.
\* `option_mask as i32` and `training as i32`.  A u32 is written as its two
\* 16-bit halves <<high, low>>; the cast keeps the bits, so the top bit
\* becomes the sign.
TwoTo16 == 2^16

U32AsI32(n) ==
    IF n[1] >= TwoTo16 \div 2 THEN (n[1] - TwoTo16) * TwoTo16 + n[2]
    ELSE n[1] * TwoTo16 + n[2]

BoolAsI32(b) == IF b THEN 1 ELSE 0

\* The engine is a function of what it is handed: one prediction per row of
\* the matrix, named by the model in the handle, the cells of the row and the
\* three integer arguments.
EnginePredict(model, matrix, rows, features, optionMask, ntreeLimit, training) ==
    [r \in 1..rows |->
        [model |-> model,
         row |-> SubSeq(matrix, (r - 1) * features + 1, r * features),
         option_mask |-> optionMask, ntree_limit |-> ntreeLimit,
         training |-> training]]

\* The arguments the wrapper hands to XGBoosterPredict for frame f.
PredictCall(f, model) ==
    EnginePredict(model, f.matrix, f.rows, f.features,
                  U32AsI32(f.mask), 0, BoolAsI32(f.training))

NativePredict(t) ==
    /\ pc[t] = "predict"
    /\ \/ /\ outBuf' = [outBuf EXCEPT ![SelfHandle(t)] = t]
          /\ frame' = [frame EXCEPT ![t] =
                 [Checked(@, "XGBoosterPredict") EXCEPT
                     !.out = PredictCall(frame[t], content[SelfHandle(t)]),
                     !.outLen = frame[t].rows]]
          /\ pc' = [pc EXCEPT ![t] = "copy"]
          /\ UNCHANGED <<lastError, result>>
       \/ /\ NativeFail(t, frame[t], "XGBoosterPredict")
          /\ UNCHANGED outBuf
    /\ UNCHANGED <<boosterState, boosterFrees, matrixState, content, files, kept, bridgeVars,
                   models, lock>>

\* slice::from_raw_parts(out_result, out_len).to_vec(): the native buffer is read.
CopyResultsShort(t) ==
    /\ pc[t] = "copy"
    /\ frame' = [frame EXCEPT ![t] =
           [Called(@, "copy") EXCEPT !.value = SubSeq(frame[t].out, 1, frame[t].outLen - 1)]]
    /\ pc' = [pc EXCEPT ![t] = "free_matrix"]
    /\ UNCHANGED <<boosterState, boosterFrees, matrixState, outBuf, content, files, kept, bridgeVars,
                   lastError, models, lock, result>>

CopyResults(t) ==
    /\ pc[t] = "copy"
    /\ frame' = [frame EXCEPT ![t] =
           [Called(@, "copy") EXCEPT !.value = SubSeq(frame[t].out, 1, frame[t].outLen)]]
    /\ pc' = [pc EXCEPT ![t] = "free_matrix"]
    /\ UNCHANGED <<boosterState, boosterFrees, matrixState, outBuf, content, files, kept, bridgeVars, lastError,
                   models, lock, result>>

\* XGDMatrixFree(dmatrix_handle), status ignored, then Ok(results).
FreeMatrixFreesBooster(t) ==
    /\ pc[t] = "free_matrix"
    /\ boosterState' = BoosterFreed(SelfHandle(t))
    /\ Finish(t, Called(frame[t], "XGBoosterFree"), "", NoError)
    /\ UNCHANGED <<boosterFrees, matrixState, outBuf, content, files, kept, bridgeVars, lastError, models>>

FreeMatrix(t) ==
    /\ pc[t] = "free_matrix"
    /\ matrixState' = MatrixFreed(frame[t].dmatrix)
    /\ Finish(t, Called(frame[t], "XGDMatrixFree"), "", NoError)
    /\ UNCHANGED <<boosterState, boosterFrees, outBuf, content, files, kept, bridgeVars, lastError, models>>

\* ---------------------------------------------------------- num_features
\* XGBoosterGetNumFeature(self.handle, &mut out), checked.
NumFeatures(t, m) ==
    /\ CanCall(t, m)
    /\ LET f == [NoFrame EXCEPT !.op = "num_features", !.m = m] IN
       \/ /\ Finish(t, [Checked(f, "XGBoosterGetNumFeature") EXCEPT
                            !.count = content[models[m].handle]], "", NoError)
          /\ UNCHANGED lastError
       \/ /\ lastError' = t
          /\ Begin(t, Checked(f, "XGBoosterGetNumFeature"), "translate")
          /\ lock' = Acquire(t, m)
    /\ UNCHANGED <<boosterState, boosterFrees, matrixState, outBuf, content, files, kept, bridgeVars, models>>

\* ------------------------------------------------------------------ save
\* Booster::save up to its native call: the two path conversions.
SaveBegin(t, m, path) ==
    /\ CanCall(t, m)
    /\ LET f == [NoFrame EXCEPT !.op = "save", !.m = m, !.path = path] IN
       \/ /\ PathError(path) # ""
          /\ Finish(t, f, PathError(path), NoError)
       \/ /\ PathError(path) = ""
          /\ Begin(t, f, "save_model")
          /\ lock' = Acquire(t, m)
    /\ UNCHANGED <<boosterState, boosterFrees, matrixState, outBuf, content, files, kept, bridgeVars, lastError, models>>

\* XGBoosterSaveModel(self.handle, path), checked; its result is save's result.
\* The engine writes the model of the handle to the file of that name, which
\* it cannot create under the empty name.
SaveModelReleases(t) ==
    /\ pc[t] = "save_model"
    /\ \/ /\ frame[t].path \in FileNames
          /\ files' = [files EXCEPT ![frame[t].path] = content[SelfHandle(t)]]
          /\ Finish(t, Checked(frame[t], "XGBoosterSaveModel"), "", NoError)
          /\ UNCHANGED <<lastError, boosterState, boosterFrees, models>>
       \/ /\ NativeFail(t, frame[t], "XGBoosterSaveModel")
          /\ boosterState' = BoosterFreed(SelfHandle(t))
          /\ boosterFrees' = [boosterFrees EXCEPT ![SelfHandle(t)] = @ + 1]
          /\ models' = [models EXCEPT ![frame[t].m].state = "Released"]
          /\ UNCHANGED <<files, lock>>
    /\ UNCHANGED <<matrixState, outBuf, content, kept, bridgeVars>>

SaveModelOtherFile(t) ==
    /\ pc[t] = "save_model"
    /\ \/ /\ frame[t].path \in FileNames
          /\ \E name \in FileNames :
                /\ name # frame[t].path
                /\ files' = [files EXCEPT ![name] = content[SelfHandle(t)]]
          /\ Finish(t, Checked(frame[t], "XGBoosterSaveModel"), "", NoError)
          /\ UNCHANGED lastError
       \/ /\ NativeFail(t, frame[t], "XGBoosterSaveModel")
          /\ UNCHANGED <<files, lock>>
    /\ UNCHANGED <<boosterState, boosterFrees, matrixState, outBuf, content, kept, bridgeVars, models>>

SaveModel(t) ==
    /\ pc[t] = "save_model"
    /\ \/ /\ frame[t].path \in FileNames
          /\ files' = [files EXCEPT ![frame[t].path] = content[SelfHandle(t)]]
          /\ Finish(t, Checked(frame[t], "XGBoosterSaveModel"), "", NoError)
          /\ UNCHANGED lastError
       \/ /\ NativeFail(t, frame[t], "XGBoosterSaveModel")
          /\ UNCHANGED <<files, lock>>
    /\ UNCHANGED <<boosterState, boosterFrees, matrixState, outBuf, content, kept, bridgeVars, models>>

\* ------------------------------------------------------------------ Drop
\* The owner may drop its Booster between calls; a shared one is dropped
\* with the last Arc, when no thread holds the Mutex.
CanDrop(t, m) ==
    /\ pc[t] = "idle"
    /\ models[m].state = "Ready"
    /\ \/ models[m].owner = t
       \/ models[m].owner = Shared /\ lock[m] = 0

\* impl Drop for Booster: XGBoosterFree(self.handle), status ignored.
DropNoFree(t, m) ==
    /\ CanDrop(t, m)
    /\ models' = [models EXCEPT ![m].state = "Released"]
    /\ UNCHANGED <<boosterState, boosterFrees, matrixState, outBuf, content, files, kept, bridgeVars, lastError,
                   lock, pc, frame, result>>

Drop(t, m) ==
    /\ CanDrop(t, m)
    /\ boosterState' = BoosterFreed(models[m].handle)
    /\ boosterFrees' = [boosterFrees EXCEPT ![models[m].handle] = @ + 1]
    /\ models' = [models EXCEPT ![m].state = "Released"]
    /\ UNCHANGED <<matrixState, outBuf, content, files, kept, bridgeVars, lastError, lock, pc, frame, result>>

\* Arc::new(Mutex::new(booster)): the owner puts its Booster behind a Mutex.
Share(t, m) ==
    /\ pc[t] = "idle"
    /\ models[m].state = "Ready"
    /\ models[m].owner = t
    /\ models' = [models EXCEPT ![m].owner = Shared]
    /\ UNCHANGED <<boosterState, boosterFrees, matrixState, outBuf, content, files, kept, bridgeVars, lastError,
                   lock, pc, frame, result>>

\* The caller keeps the Vec<f32> a successful predict returned.
Keep(t) ==
    /\ pc[t] = "idle"
    /\ result[t].op = "predict" /\ result[t].description = ""
    /\ kept[t] # result[t]
    /\ kept' = [kept EXCEPT ![t] = result[t]]
    /\ UNCHANGED <<boosterState, boosterFrees, matrixState, outBuf, lastError,
                   content, files, models, lock, pc, frame, result, bridgeVars>>

\* ------------------------------------------------------------ DataFrames
\* A DataFrame is the sequence of its columns; a column has a name, a data
\* type and one cell per row; a cell is an Option: <<>> is null, <<v>> holds v.
AllNames == <<"a", "b", "c", "d", "e">>

\* An Int64 column, a String column of text that is no number, and a List
\* column.
Kinds == {"i64", "str", "list"}

TwoTo24 == 2^24

\* The value of the cell at row r of the c-th column: no two cells of a
\* DataFrame hold the same value, and an Int64 cell holds an odd integer
\* above 2^24, which is no f32.
CellOf(kind, r, c) ==
    LET code == (r - 1) * MaxFeatures + c
    IN  IF kind = "i64" THEN TwoTo24 + 4 * code + 1 ELSE code

DataFrameOf(height, kinds, nulls) ==
    [c \in 1..Len(kinds) |->
        [name |-> AllNames[c], kind |-> kinds[c],
         cells |-> [r \in 1..height |->
                       IF <<r, c>> \in nulls THEN <<>> ELSE <<CellOf(kinds[c], r, c)>>]]]

DataFrames ==
    UNION {{DataFrameOf(height, kinds, nulls) :
                kinds \in [1..width -> Kinds],
                nulls \in {n \in SUBSET ((1..height) \X (1..width)) :
                              Cardinality(n) <= MaxNulls}} :
           height \in 0..MaxHeight, width \in 0..MaxFeatures}

\* df.height() and df.width(); a DataFrame without columns has no rows.
Height(table) == IF table = <<>> THEN 0 ELSE Len(table[1].cells)
Width(table) == Len(table)

ColumnNames(table) == [c \in 1..Len(table) |-> table[c].name]

NullCells(table) ==
    {rc \in (1..Height(table)) \X (1..Width(table)) : table[rc[2]].cells[rc[1]] = <<>>}

\* The lists of names a caller may ask for: up to MaxFeatures names, in any
\* order, with repeats, one of them the name of no column.
NameLists ==
    UNION {[1..n -> {AllNames[i] : i \in 1..(MaxFeatures + 1)}] : n \in 0..MaxFeatures}

\* DataFrame::select: the named columns in the order asked for; an error
\* when a name is that of no column or is asked for twice.
SelectOk(table, names) ==
    /\ \A i \in 1..Len(names) : \E c \in 1..Len(table) : table[c].name = names[i]
    /\ \A i, j \in 1..Len(names) : names[i] = names[j] => i = j

SelectInTableOrder(table, names) ==
    SelectSeq(table, LAMBDA column : \E i \in 1..Len(names) : names[i] = column.name)

Select(table, names) ==
    [i \in 1..Len(names) |-> table[CHOOSE c \in 1..Len(table) : table[c].name = names[i]]]

\* `as f32` of an integer below 2^25: exact up to 2^24, to the nearest even
\* integer above, a tie going to the multiple of 4.
RoundToF32(v) ==
    IF v <= TwoTo24 \/ v % 2 = 0 THEN v
    ELSE IF (v + 1) % 4 = 0 THEN v + 1 ELSE v - 1

\* Series::cast(&DataType::Float32) is not strict: it fails for a data type
\* that has no cast to Float32, and a cell it cannot convert becomes null.
CastOk(column) == column.kind # "list"

CastCell(kind, cell) ==
    IF cell = <<>> \/ kind = "str" THEN <<>>
    ELSE <<RoundToF32(cell[1])>>

Cast(column) == [r \in 1..Len(column.cells) |-> CastCell(column.kind, column.cells[r])]

\* A DataFrame call of thread t returns e without having called predict.
BridgeFail(t, description, row, col) ==
    /\ dense' = [NoDense EXCEPT !.op = bframe.op, !.status = "err",
                                !.description = description, !.row = row, !.col = col]
    /\ bpc' = "idle"
    /\ bframe' = NoBFrame

BridgeIdle(t, m) == bpc = "idle" /\ CanCall(t, m)

\* predict_dataframe(df, option_mask, training): dataframe_to_dense(df)? first.
PredictDataframe(t, m) ==
    /\ BridgeIdle(t, m)
    /\ bpc' = "dense"
    /\ bframe' = [NoBFrame EXCEPT !.op = "predict_dataframe", !.m = m, !.table = df]
    /\ dense' = NoDense
    /\ result' = [result EXCEPT ![t] = NoResult]
    /\ UNCHANGED <<boosterState, boosterFrees, matrixState, outBuf, lastError,
                   content, files, models, lock, pc, frame, kept, df, columns>>

\* predict_dataframe_with_columns(df, columns, option_mask, training).
PredictDataframeWithColumns(t, m) ==
    /\ BridgeIdle(t, m)
    /\ bpc' = "select"
    /\ bframe' = [NoBFrame EXCEPT !.op = "predict_dataframe_with_columns", !.m = m,
                                  !.table = df]
    /\ dense' = NoDense
    /\ result' = [result EXCEPT ![t] = NoResult]
    /\ UNCHANGED <<boosterState, boosterFrees, matrixState, outBuf, lastError,
                   content, files, models, lock, pc, frame, kept, df, columns>>

\* df.select(column_names).map_err(..)?
SelectColumnsInTableOrder(t) ==
    /\ bpc = "select"
    /\ \/ /\ SelectOk(bframe.table, columns)
          /\ bframe' = [bframe EXCEPT !.table = SelectInTableOrder(@, columns)]
          /\ bpc' = "dense"
          /\ UNCHANGED dense
       \/ /\ ~SelectOk(bframe.table, columns)
          /\ BridgeFail(t, "Failed to select columns: {}", 0, 0)
    /\ UNCHANGED <<boosterState, boosterFrees, matrixState, outBuf, lastError,
                   content, files, models, lock, pc, frame, result, kept, df, columns>>

SelectColumns(t) ==
    /\ bpc = "select"
    /\ \/ /\ SelectOk(bframe.table, columns)
          /\ bframe' = [bframe EXCEPT !.table = Select(@, columns)]
          /\ bpc' = "dense"
          /\ UNCHANGED dense
       \/ /\ ~SelectOk(bframe.table, columns)
          /\ BridgeFail(t, "Failed to select columns: {}", 0, 0)
    /\ UNCHANGED <<boosterState, boosterFrees, matrixState, outBuf, lastError,
                   content, files, models, lock, pc, frame, result, kept, df, columns>>

\* dataframe_to_dense up to its loop: the zero check, then vec![0.0; rows * columns].
DenseBeginColumnsOnly(t) ==
    /\ bpc = "dense"
    /\ LET num_rows == Height(bframe.table)
           num_features == Width(bframe.table)
       IN  \/ /\ num_features = 0
              /\ BridgeFail(t, "DataFrame has zero rows or columns", 0, 0)
           \/ /\ num_features # 0
              /\ bframe' = [bframe EXCEPT
                     !.rows = num_rows, !.features = num_features,
                     !.data = [i \in 1..(num_rows * num_features) |-> 0],
                     !.writes = [i \in 1..(num_rows * num_features) |-> 0]]
              /\ bpc' = "cast"
              /\ UNCHANGED dense
    /\ UNCHANGED <<boosterState, boosterFrees, matrixState, outBuf, lastError,
                   content, files, models, lock, pc, frame, result, kept, df, columns>>

DenseBegin(t) ==
    /\ bpc = "dense"
    /\ LET num_rows == Height(bframe.table)
           num_features == Width(bframe.table)
       IN  \/ /\ num_rows = 0 \/ num_features = 0
              /\ BridgeFail(t, "DataFrame has zero rows or columns", 0, 0)
           \/ /\ ~(num_rows = 0 \/ num_features = 0)
              /\ bframe' = [bframe EXCEPT
                     !.rows = num_rows, !.features = num_features,
                     !.data = [i \in 1..(num_rows * num_features) |-> 0],
                     !.writes = [i \in 1..(num_rows * num_features) |-> 0]]
              /\ bpc' = "cast"
              /\ UNCHANGED dense
    /\ UNCHANGED <<boosterState, boosterFrees, matrixState, outBuf, lastError,
                   content, files, models, lock, pc, frame, result, kept, df, columns>>

\* series.cast(&DataType::Float32).map_err(..)? of column col_idx; f32() of
\* the Float32 series it gives cannot fail.
CastColumn(t) ==
    /\ bpc = "cast"
    /\ LET column == bframe.table[bframe.col + 1]
       IN  \/ /\ CastOk(column)
              /\ bframe' = [bframe EXCEPT !.series = Cast(column), !.row = 0]
              /\ bpc' = "cell"
              /\ UNCHANGED dense
           \/ /\ ~CastOk(column)
              /\ BridgeFail(t, "Failed to cast column to f32: {}", 0, bframe.col)
    /\ UNCHANGED <<boosterState, boosterFrees, matrixState, outBuf, lastError,
                   content, files, models, lock, pc, frame, result, kept, df, columns>>

\* The frame after the cell at (row_idx, col_idx) has been dealt with, and
\* Ok((data, num_rows, num_features)) after the last one.
NextCell(t, f) ==
    IF f.row + 1 < f.rows THEN
        /\ bframe' = [f EXCEPT !.row = @ + 1]
        /\ bpc' = "cell"
        /\ UNCHANGED dense
    ELSE IF f.col + 1 < f.features THEN
        /\ bframe' = [f EXCEPT !.col = @ + 1, !.row = 0, !.series = <<>>]
        /\ bpc' = "cast"
        /\ UNCHANGED dense
    ELSE
        /\ bframe' = f
        /\ bpc' = "call"
        /\ dense' = [NoDense EXCEPT !.op = f.op, !.status = "ok", !.data = f.data,
                                    !.rows = f.rows, !.features = f.features,
                                    !.writes = f.writes]

\* One turn of the inner loop: opt_val.ok_or_else(..)?, then
\* data[row_idx * num_features + col_idx] = val.
WriteCellNullAsNaN(t) ==
    /\ bpc = "cell"
    /\ LET opt_val == bframe.series[bframe.row + 1]
           at == bframe.row * bframe.features + bframe.col + 1
       IN  NextCell(t, [bframe EXCEPT
                  !.data[at] = IF opt_val = <<>> THEN -1 ELSE opt_val[1],
                  !.writes[at] = @ + 1])
    /\ UNCHANGED <<boosterState, boosterFrees, matrixState, outBuf, lastError,
                   content, files, models, lock, pc, frame, result, kept, df, columns>>

WriteCellColumnMajor(t) ==
    /\ bpc = "cell"
    /\ LET opt_val == bframe.series[bframe.row + 1]
           at == bframe.col * bframe.rows + bframe.row + 1
       IN  \/ /\ opt_val = <<>>
              /\ BridgeFail(t, "Null value at row {}, col {}", bframe.row, bframe.col)
           \/ /\ opt_val # <<>>
              /\ NextCell(t, [bframe EXCEPT !.data[at] = opt_val[1],
                                           !.writes[at] = @ + 1])
    /\ UNCHANGED <<boosterState, boosterFrees, matrixState, outBuf, lastError,
                   content, files, models, lock, pc, frame, result, kept, df, columns>>

WriteCellRowsReversed(t) ==
    /\ bpc = "cell"
    /\ LET row_idx == bframe.rows - 1 - bframe.row
           opt_val == bframe.series[row_idx + 1]
           at == row_idx * bframe.features + bframe.col + 1
       IN  \/ /\ opt_val = <<>>
              /\ BridgeFail(t, "Null value at row {}, col {}", row_idx, bframe.col)
           \/ /\ opt_val # <<>>
              /\ NextCell(t, [bframe EXCEPT !.data[at] = opt_val[1],
                                           !.writes[at] = @ + 1])
    /\ UNCHANGED <<boosterState, boosterFrees, matrixState, outBuf, lastError,
                   content, files, models, lock, pc, frame, result, kept, df, columns>>

WriteCell(t) ==
    /\ bpc = "cell"
    /\ LET opt_val == bframe.series[bframe.row + 1]
           at == bframe.row * bframe.features + bframe.col + 1
       IN  \/ /\ opt_val = <<>>
              /\ BridgeFail(t, "Null value at row {}, col {}", bframe.row, bframe.col)
           \/ /\ opt_val # <<>>
              /\ NextCell(t, [bframe EXCEPT !.data[at] = opt_val[1],
                                           !.writes[at] = @ + 1])
    /\ UNCHANGED <<boosterState, boosterFrees, matrixState, outBuf, lastError,
                   content, files, models, lock, pc, frame, result, kept, df, columns>>

\* self.predict(&data, num_rows, num_features, option_mask, training): the
\* DataFrame call returns what predict returns.
CallPredict(t) ==
    /\ bpc = "call"
    /\ PredictBegin(t, bframe.m, dense.data, dense.rows, dense.features, <<0, 0>>, FALSE)
    /\ bpc' = "idle"
    /\ bframe' = NoBFrame
    /\ UNCHANGED <<df, columns, dense>>

\* ----------------------------------------------------------- specification
Lens == 1..MaxLen
Rows == 1..MaxRows
Features == 1..MaxFeatures

\* Input slices: of every length, with one value throughout.
Ones == {[i \in 1..n |-> 1] : n \in Lens}

\* option_mask values: none, output margin, and the top bit of a u32.
Masks == {<<0, 0>>, <<0, 1>>, <<TwoTo16 \div 2, 0>>}

\* One step of caller thread t, its arguments drawn from the given sets.
Step(t, paths, buffers, datas, rows, features, masks, trainings, beyonds) ==
    \/ \E path \in paths : LoadBegin(t, path)
    \/ \E bytes \in buffers : LoadFromBufferBegin(t, bytes)
    \/ CreateBooster(t)
    \/ LoadModel(t)
    \/ LoadModelFromBuffer(t)
    \/ Translate(t)
    \/ \E m \in ModelIds, data \in datas, r \in rows, c \in features,
             mask \in masks, training \in trainings :
           PredictBegin(t, m, data, r, c, mask, training) /\ UNCHANGED bridgeVars
    \/ \E beyond \in beyonds : CreateMatrix(t, beyond)
    \/ NativePredict(t)
    \/ CopyResults(t)
    \/ FreeMatrix(t)
    \/ \E m \in ModelIds : NumFeatures(t, m)
    \/ \E m \in ModelIds, path \in paths : SaveBegin(t, m, path)
    \/ SaveModel(t)
    \/ \E m \in ModelIds : Drop(t, m)

\* A single caller thread, which owns every Booster it loads; every argument.
Next == Step(MainThread, Paths, Buffers, Ones, Rows, {1}, {<<0, 0>>}, {FALSE}, {0})

Spec == Init /\ [][Next]_vars

\* Every caller thread, on well-formed arguments; a Booster is used by the
\* thread that loaded it, or by every thread once it is behind a Mutex.
NextThreads ==
    \E t \in Threads :
        \/ Step(t, {<<ByteA>>}, {"valid"}, {<<1>>}, {1}, {1}, {<<0, 0>>}, {FALSE}, {0})
        \/ \E m \in ModelIds : Share(t, m)

SpecThreads == Init /\ [][NextThreads]_vars

\* A single caller thread that loads models from memory, predicts with
\* every mask and training flag, keeps what a call returned, and calls again;
\* a slice shorter than rows * features is followed in memory by anything.
NextPredict ==
    \/ LoadFromBufferBegin(MainThread, "valid")
    \/ CreateBooster(MainThread)
    \/ LoadModelFromBuffer(MainThread)
    \/ Translate(MainThread)
    \/ \E m \in ModelIds, data \in Ones, r \in Rows, c \in Features,
             mask \in Masks, training \in BOOLEAN :
           PredictBegin(MainThread, m, data, r, c, mask, training) /\ UNCHANGED bridgeVars
    \/ \E beyond \in 0..MaxValue : CreateMatrix(MainThread, beyond)
    \/ NativePredict(MainThread)
    \/ CopyResults(MainThread)
    \/ FreeMatrix(MainThread)
    \/ Keep(MainThread)

SpecPredict == Init /\ [][NextPredict]_vars

\* A single caller thread that loads and saves models of every feature count
\* under two file names, whose files differ at the start.
InitFiles ==
    /\ boosterState = [h \in BoosterHandles |-> "none"]
    /\ boosterFrees = [h \in BoosterHandles |-> 0]
    /\ matrixState = [d \in MatrixHandles |-> "none"]
    /\ outBuf = [h \in BoosterHandles |-> 0]
    /\ lastError = NoError
    /\ content = [h \in BoosterHandles |-> 0]
    /\ files \in [FileNames -> 0..MaxNumFeatures]
    /\ \A name \in FileNames \ FilePaths : files[name] = 1
    /\ files[<<ByteA>>] # files[<<ByteB>>]
    /\ models = [m \in ModelIds |-> NoModel]
    /\ lock = [m \in ModelIds |-> 0]
    /\ pc = [t \in Threads |-> "idle"]
    /\ frame = [t \in Threads |-> NoFrame]
    /\ result = [t \in Threads |-> NoResult]
    /\ kept = [t \in Threads |-> NoResult]
    /\ NoDataFrame

NextFiles ==
    \/ \E path \in FilePaths : LoadBegin(MainThread, path)
    \/ CreateBooster(MainThread)
    \/ LoadModel(MainThread)
    \/ Translate(MainThread)
    \/ \E m \in ModelIds : NumFeatures(MainThread, m)
    \/ \E m \in ModelIds, path \in FilePaths : SaveBegin(MainThread, m, path)
    \/ SaveModel(MainThread)
    \/ \E m \in ModelIds : Drop(MainThread, m)

SpecFiles == InitFiles /\ [][NextFiles]_vars

\* A DataFrame whose columns are numeric and which has at most one null cell.
Plain(table) ==
    /\ \A c \in 1..Len(table) : table[c].kind = "i64"
    /\ Cardinality(NullCells(table)) <= 1

\* A single caller thread that holds a Ready Booster, loaded from memory, a
\* DataFrame and a list of names, and makes the two DataFrame calls.  Every
\* list of names is tried on the plain DataFrames, the list of all its
\* columns on every other.
InitBridge ==
    /\ boosterState = [h \in BoosterHandles |-> IF h = 1 THEN "loaded" ELSE "none"]
    /\ boosterFrees = [h \in BoosterHandles |-> 0]
    /\ matrixState = [d \in MatrixHandles |-> "none"]
    /\ outBuf = [h \in BoosterHandles |-> 0]
    /\ lastError = NoError
    /\ content = [h \in BoosterHandles |-> IF h = 1 THEN BufferModel("valid") ELSE 0]
    /\ files = [name \in FileNames |-> 1]
    /\ models = [m \in ModelIds |->
           IF m = 1 THEN [state |-> "Ready", handle |-> 1, owner |-> MainThread]
           ELSE NoModel]
    /\ lock = [m \in ModelIds |-> 0]
    /\ pc = [t \in Threads |-> "idle"]
    /\ frame = [t \in Threads |-> NoFrame]
    /\ result = [t \in Threads |-> NoResult]
    /\ kept = [t \in Threads |-> NoResult]
    /\ df \in DataFrames
    /\ columns \in NameLists
    /\ ~Plain(df) => columns = ColumnNames(df)
    /\ bpc = "idle"
    /\ bframe = NoBFrame
    /\ dense = NoDense

NextBridge ==
    \/ \E m \in ModelIds : PredictDataframe(MainThread, m)
    \/ \E m \in ModelIds : PredictDataframeWithColumns(MainThread, m)
    \/ SelectColumns(MainThread)
    \/ DenseBegin(MainThread)
    \/ CastColumn(MainThread)
    \/ WriteCell(MainThread)
    \/ CallPredict(MainThread)
    \/ CreateMatrix(MainThread, 0)
    \/ NativePredict(MainThread)
    \/ CopyResults(MainThread)
    \/ FreeMatrix(MainThread)
    \/ Translate(MainThread)

SpecBridge == InitBridge /\ [][NextBridge]_vars


\* ------------------------------------------------------------- properties
\* The last operation of thread t has returned and its result stands.
Finished(t) == pc[t] = "idle" /\ result[t].op # "none"

Last(calls) == calls[Len(calls)]

Issued(f, call) == \E i \in 1..Len(f.calls) : f.calls[i] = call

LoadOps == {"load", "load_from_buffer"}

\* C1: the handle of every Booster built by a load is freed by XGBoosterFree
\* exactly once, when the Booster is dropped, and never while it is Ready or a
\* second time; once every Booster built has been dropped, none of their
\* handles is live.
C1_FreedExactlyOnce ==
    /\ \A h \in BoosterHandles : boosterFrees[h] <= 1
    /\ \A m \in ModelIds :
        /\ models[m].state = "Ready" => boosterFrees[models[m].handle] = 0
        /\ models[m].state = "Released" =>
              /\ boosterFrees[models[m].handle] = 1
              /\ boosterState[models[m].handle] = "freed"

C1_Witness == \A m \in ModelIds : models[m].state = "Released"

\* C2: when load or load_from_buffer returns an error after XGBoosterCreate
\* succeeded, the handle it created has been freed.
C2_FailedLoadReleasesHandle ==
    \A t \in Threads :
        (Finished(t) /\ result[t].op \in LoadOps /\ result[t].description # ""
            /\ result[t].handle # NullHandle)
        => boosterState[result[t].handle] = "freed"

\* C3: when predict returns, value or error, the matrix handle it created
\* has been freed.
C3_MatrixFreedOnEveryExit ==
    \A t \in Threads :
        (Finished(t) /\ result[t].op = "predict" /\ result[t].dmatrix # NullHandle)
        => matrixState[result[t].dmatrix] = "freed"

\* C5: the buffer predict has handed to XGDMatrixCreateFromMat has exactly
\* rows * features elements.
C5_BufferMatchesDims ==
    \A t \in Threads :
        (frame[t].op = "predict" /\ Issued(frame[t], "XGDMatrixCreateFromMat"))
        => frame[t].len = frame[t].rows * frame[t].features


ValidPath(path) == ToStrOk(path) /\ CStringNewOk(path)

\* What one step may do to Booster m.
LifecycleStep(m) ==
    /\ models[m].state = "Uninitialized" =>
          \/ models'[m] = models[m]
          \/ /\ models'[m].state = "Ready"
             /\ \E t \in Threads :
                   /\ pc[t] \in {"load_model", "load_model_buffer"}
                   /\ models'[m].handle = frame[t].handle
                   /\ boosterState[frame[t].handle] = "created"
                   /\ boosterState'[frame[t].handle] = "loaded"
                   /\ Finished(t)' /\ result'[t].description = ""
    /\ models[m].state = "Ready" =>
          /\ models'[m].handle = models[m].handle
          /\ \/ /\ models'[m].state = "Ready"
                /\ boosterState'[models[m].handle] = "loaded"
             \/ /\ models'[m].state = "Released"
                /\ boosterState'[models[m].handle] = "freed"
                /\ boosterFrees'[models[m].handle] = boosterFrees[models[m].handle] + 1
    /\ models[m].state = "Released" => models'[m] = models[m]
    /\ models'[m].state = "Ready" =>
          /\ boosterState'[models'[m].handle] = "loaded"
          /\ \A n \in ModelIds \ {m} : models'[n].handle # models'[m].handle
          /\ \A t \in Threads : pc'[t] \in LoadPcs => frame'[t].handle # models'[m].handle

\* C6: a Booster becomes Ready once, by a load whose XGBoosterCreate and load
\* call both succeeded; it keeps its handle while Ready; it becomes Released
\* once, by the Drop that frees that handle; Released is final; no load call is
\* issued on the handle of a Booster that already exists; every Ready Booster
\* holds a handle of its own that is created and loaded.
C6_Lifecycle == [][\A m \in ModelIds : LifecycleStep(m)]_vars

C6_Witness ==
    \E m, n \in ModelIds : models[m].state = "Released" /\ models[n].state = "Ready"

\* C7: load and save on a path that is not valid UTF-8 or holds a NUL byte
\* return InvalidPath with no native call issued and no handle created, and
\* neither ever stands at a native call with such a path.
C7_InvalidPathNoNativeCall ==
    \A t \in Threads :
        /\ (Finished(t) /\ result[t].op \in {"load", "save"} /\ ~ValidPath(result[t].path))
           => /\ ErrorClass(result[t].description) = "InvalidPath"
              /\ result[t].calls = <<>>
              /\ result[t].handle = NullHandle
        /\ (pc[t] # "idle" /\ frame[t].op \in {"load", "save"}) => ValidPath(frame[t].path)

C7_Witness ==
    \E t \in Threads :
        /\ Finished(t) /\ result[t].op = "save" /\ ~CStringNewOk(result[t].path)
        /\ ErrorClass(result[t].description) = "InvalidPath"

\* C8 (as claimed): load of the empty path is rejected by the path validation:
\* it reaches no native call and returns InvalidPath.
C8_EmptyPathIsInvalidPath ==
    \A t \in Threads :
        /\ (frame[t].op = "load" /\ frame[t].path = <<>>) => pc[t] \notin LoadPcs
        /\ (Finished(t) /\ result[t].op = "load" /\ result[t].path = <<>>)
           => ErrorClass(result[t].description) = "InvalidPath"

\* C8 (amended): load of the empty path passes the path validation and
\* calls XGBoosterCreate; it returns a NativeCallFailure, that of
\* XGBoosterCreate or of XGBoosterLoadModel, and never InvalidPath.
C8_EmptyPathReachesNative ==
    \A t \in Threads :
        (Finished(t) /\ result[t].op = "load" /\ result[t].path = <<>>)
        => /\ ErrorClass(result[t].description) = "NativeCallFailure"
           /\ result[t].calls # <<>>
           /\ result[t].calls[1] = "XGBoosterCreate"
           /\ result[t].message = t
           /\ Last(result[t].calls) \in {"XGBoosterCreate", "XGBoosterLoadModel"}

C8_Witness ==
    \E t \in Threads :
        /\ Finished(t) /\ result[t].op = "load" /\ result[t].path = <<>>
        /\ ErrorClass(result[t].description) = "NativeCallFailure"
        /\ result[t].calls = <<"XGBoosterCreate", "XGBoosterLoadModel">>

\* C9: a load or load_from_buffer in which a native call failed returns a
\* NativeCallFailure and builds no Booster: no Booster holds the handle of
\* that attempt, so no Drop frees it; corrupted bytes always end this way.
C9_NativeFailureNoModel ==
    \A t \in Threads :
        /\ (Finished(t) /\ result[t].op \in LoadOps /\ result[t].message # NoError)
           => /\ ErrorClass(result[t].description) = "NativeCallFailure"
              /\ result[t].m = 0
              /\ \A m \in ModelIds :
                    models[m].state = "Uninitialized" \/ models[m].handle # result[t].handle
              /\ result[t].handle # NullHandle => boosterFrees[result[t].handle] = 0
        /\ (Finished(t) /\ result[t].op = "load_from_buffer" /\ result[t].bytes = "corrupted")
           => result[t].message # NoError

C9_Witness ==
    \E t \in Threads :
        /\ Finished(t) /\ result[t].op = "load_from_buffer" /\ result[t].bytes = "corrupted"
        /\ result[t].message = t
        /\ Last(result[t].calls) = "XGBoosterLoadModelFromBuffer"
        /\ ErrorClass(result[t].description) = "NativeCallFailure"

\* The step about to be taken is a step of save by thread t.
SaveStep(t) ==
    \/ pc[t] = "save_model"
    \/ pc[t] = "translate" /\ frame[t].op = "save"
    \/ pc[t] = "idle" /\ frame'[t].op = "save"
    \/ pc[t] = "idle" /\ result'[t].op = "save" /\ result'[t] # result[t]

\* C10: no step of save changes a Booster, a booster handle or a matrix
\* handle; when save returns, by any of its three exits, its Booster is
\* Ready with the same handle and the caller may call it again.
C10_SaveKeepsLifecycle ==
    [][\A t \in Threads :
          (SaveStep(t) /\ (pc'[t] # pc[t] \/ result'[t] # result[t]))
          => /\ UNCHANGED <<models, boosterState, boosterFrees, matrixState, outBuf>>
             /\ pc'[t] = "idle" =>
                   /\ Finished(t)' /\ result'[t].op = "save"
                   /\ models'[result'[t].m].state = "Ready"
                   /\ lock'[result'[t].m] # t]_vars

C10_Witness ==
    \E t \in Threads :
        /\ Finished(t) /\ result[t].op = "save" /\ result[t].message = t
        /\ Last(result[t].calls) = "XGBoosterSaveModel"
        /\ models[result[t].m].state = "Ready"


\* Thread t stands inside an operation on &self.
InCall(t) == pc[t] # "idle" /\ frame[t].op \in {"predict", "num_features", "save"}

\* C4: a thread that stands inside predict, num_features or save, at or
\* after a native call on self.handle, works on a Booster that is still
\* Ready and whose handle has not been freed; a thread about to copy the
\* prediction reads the buffer its own XGBoosterPredict filled, on a live
\* handle; and a Booster a thread may still call has a live handle.
C4_NoUseAfterRelease ==
    /\ \A t \in Threads :
          InCall(t) =>
              /\ models[frame[t].m].state = "Ready"
              /\ boosterState[SelfHandle(t)] = "loaded"
              /\ boosterFrees[SelfHandle(t)] = 0
    /\ \A t \in Threads :
          pc[t] = "copy" =>
              /\ outBuf[SelfHandle(t)] = t
              /\ boosterState[SelfHandle(t)] = "loaded"
              /\ matrixState[frame[t].dmatrix] = "live"
    /\ \A m \in ModelIds :
          models[m].state = "Ready" => boosterState[models[m].handle] = "loaded"

\* Two threads share a Booster behind the Mutex: one is about to copy its
\* prediction after the other has predicted on the same Booster, and some
\* other Booster has been dropped meanwhile.
C4_Witness ==
    \E t, u \in Threads :
        /\ t # u
        /\ pc[t] = "copy" /\ models[frame[t].m].owner = Shared
        /\ Finished(u) /\ result[u].op = "predict" /\ result[u].m = frame[t].m
        /\ result[u].description = ""
        /\ \E h \in BoosterHandles : boosterState[h] = "freed"

PredictCalls == <<"XGDMatrixCreateFromMat", "XGBoosterPredict", "copy", "XGDMatrixFree">>

\* C17: a predict that returns Ok has made exactly these steps, once each and
\* in this order: XGDMatrixCreateFromMat, XGBoosterPredict, the copy of
\* (out_result, out_len), XGDMatrixFree; while it copies, and until it frees,
\* the matrix is live; and the sequence it returns has out_len elements, the
\* first out_len of the native buffer.
C17_PredictOrder ==
    \A t \in Threads :
        /\ (Finished(t) /\ result[t].op = "predict" /\ result[t].description = "")
           => /\ result[t].calls = PredictCalls
              /\ Len(result[t].value) = result[t].outLen
        /\ (frame[t].op = "predict" /\ pc[t] \in {"copy", "free_matrix"})
           => /\ matrixState[frame[t].dmatrix] = "live"
              /\ ~Issued(frame[t], "XGDMatrixFree")
        /\ (frame[t].op = "predict" /\ pc[t] = "free_matrix")
           => /\ frame[t].calls = SubSeq(PredictCalls, 1, 3)
              /\ Len(frame[t].value) = frame[t].outLen
              /\ frame[t].value = SubSeq(frame[t].out, 1, frame[t].outLen)

C17_Witness ==
    \E t \in Threads :
        /\ Finished(t) /\ result[t].op = "predict" /\ result[t].description = ""
        /\ result[t].calls = PredictCalls
        /\ Len(result[t].value) = MaxRows
        /\ matrixState[result[t].dmatrix] = "freed"

\* The native calls among the steps of an operation.
NativeCalls(calls) == SelectSeq(calls, LAMBDA call : call # "copy")

\* C18: the status of every native call an operation made went through
\* check_return_value.
C18_EveryStatusChecked ==
    \A t \in Threads :
        Finished(t) => result[t].checked = NativeCalls(result[t].calls)

\* C19: the error a failed native call of thread t returns to its caller
\* carries the last-error message that this call of thread t wrote.
C19_MessageOfFailedCall ==
    \A t \in Threads :
        (Finished(t) /\ result[t].message # NoError) => result[t].message = t

\* A step of predict by thread t in which XGDMatrixCreateFromMat failed, or
\* which follows that failure.
CreateFailedStep(t) ==
    /\ frame[t].op = "predict"
    /\ pc'[t] # pc[t]
    /\ \/ pc[t] = "create_matrix" /\ matrixState' = matrixState
       \/ pc[t] # "create_matrix" /\ frame[t].dmatrix = NullHandle

\* C20: when XGDMatrixCreateFromMat fails, predict goes straight to the
\* translation of that error and returns it: XGDMatrixCreateFromMat is the
\* only call it made, no matrix handle exists or is freed, and the Booster
\* is Ready with its handle loaded, unfreed and unchanged.
C20_CreateMatrixFailureReturns ==
    [][\A t \in Threads :
          CreateFailedStep(t)
          => /\ UNCHANGED <<models, boosterState, boosterFrees, matrixState, outBuf, content>>
             /\ pc[t] = "create_matrix" =>
                   /\ pc'[t] = "translate"
                   /\ frame'[t].calls = <<"XGDMatrixCreateFromMat">>
                   /\ frame'[t].dmatrix = NullHandle
             /\ pc[t] # "create_matrix" =>
                   /\ pc[t] = "translate"
                   /\ Finished(t)' /\ result'[t].op = "predict"
                   /\ result'[t].calls = <<"XGDMatrixCreateFromMat">>
                   /\ ErrorClass(result'[t].description) = "NativeCallFailure"
                   /\ models'[result'[t].m].state = "Ready"
                   /\ boosterState'[models'[result'[t].m].handle] = "loaded"
                   /\ boosterFrees'[models'[result'[t].m].handle] = 0]_vars

C20_Witness ==
    \E t \in Threads :
        /\ Finished(t) /\ result[t].op = "predict"
        /\ result[t].calls = <<"XGDMatrixCreateFromMat">>
        /\ result[t].dmatrix = NullHandle
        /\ result[t].message = t
        /\ models[result[t].m].state = "Ready"
        /\ \E d \in MatrixHandles : matrixState[d] = "none"

\* What one step of thread t may do to the models in handles and files.
RoundTripStep(t) ==
    /\ \A m \in ModelIds :
          models[m].state = "Ready" =>
              content'[models[m].handle] = content[models[m].handle]
    /\ (pc[t] = "save_model" /\ pc'[t] = "idle") =>
          /\ result'[t].op = "save" /\ result'[t].description = ""
          /\ files' = [files EXCEPT ![frame[t].path] = content[SelfHandle(t)]]
    /\ (pc[t] = "load_model" /\ pc'[t] = "idle") =>
          /\ result'[t].op = "load" /\ result'[t].description = ""
          /\ models'[result'[t].m].state = "Ready"
          /\ content'[models'[result'[t].m].handle] = files[frame[t].path]
          /\ files[frame[t].path] > 0
    /\ (pc[t] = "idle" /\ result'[t].op = "num_features" /\ result'[t].description = "") =>
          result'[t].count = content[models[result'[t].m].handle]

SameCall(t) ==
    /\ Finished(t) /\ result[t].op = "predict" /\ result[t].description = ""
    /\ kept[t].op = "predict"
    /\ kept[t].m = result[t].m
    /\ kept[t].data = result[t].data
    /\ kept[t].rows = result[t].rows
    /\ kept[t].features = result[t].features
    /\ kept[t].mask = result[t].mask
    /\ kept[t].training = FALSE /\ result[t].training = FALSE

\* C16: two predict calls on the same Booster with the same data, rows,
\* features and option_mask, training off, return the same sequence, whatever
\* calls were made in between.
C16_SameInputSameOutput ==
    \A t \in Threads : SameCall(t) => result[t].value = kept[t].value

\* The last DataFrame call has returned from dataframe_to_dense (or from the
\* select before it), and to_dense was handed a table.
Converted ==
    /\ dense.status # "none"
    /\ dense.op = "predict_dataframe_with_columns" => SelectOk(df, columns)

\* The table dataframe_to_dense was handed by the last DataFrame call.
Handed == IF dense.op = "predict_dataframe" THEN df ELSE Select(df, columns)

\* The DataFrame call that has failed never began predict: no native call.
NoPredict(t) == pc[t] = "idle" /\ frame[t] = NoFrame /\ result[t] = NoResult

\* C11: a table with zero rows or zero columns is rejected with EmptyInput,
\* with no buffer allocated and predict not begun; the conversion loop is
\* only ever entered, and a buffer only ever allocated, for a table with at
\* least one row and one column.
C11_EmptyInputRejected ==
    /\ (Converted /\ (Height(Handed) = 0 \/ Width(Handed) = 0))
       => /\ dense.status = "err"
          /\ ErrorClass(dense.description) = "EmptyInput"
          /\ dense.data = <<>>
          /\ NoPredict(MainThread)
    /\ bpc \in {"cast", "cell", "call"}
       => Height(bframe.table) >= 1 /\ Width(bframe.table) >= 1
    /\ bframe.data # <<>> => bframe.rows >= 1 /\ bframe.features >= 1

C11_Witness ==
    /\ dense.op = "predict_dataframe"
    /\ Width(df) = MaxFeatures /\ Height(df) = 0
    /\ ErrorClass(dense.description) = "EmptyInput"
    /\ NoPredict(MainThread)

\* The cell the error of the last DataFrame call names, counted from 1.
Named == <<dense.row + 1, dense.col + 1>>

\* Every column up to and including the first one that holds a null cell is
\* numeric.
NumericToFirstNull(table) ==
    \A c \in 1..Width(table) :
        (\A b \in 1..(c - 1) : \A r \in 1..Height(table) : <<r, b>> \notin NullCells(table))
        => table[c].kind = "i64"

\* C12 (as claimed): a table with a null cell is rejected with a NullValue
\* error that names the row and column of a null cell.
C12_NullValueNamesNullCell ==
    (Converted /\ NullCells(Handed) # {})
    => /\ dense.status = "err"
       /\ ErrorClass(dense.description) = "NullValue"
       /\ Named \in NullCells(Handed)

\* C12 (amended): a table with a null cell is rejected and predict is not
\* begun; no null cell is ever written to the buffer; the error is that of
\* the first column, in column order, that fails: a CastFailure naming a
\* column that has no cast to f32, or a NullValue naming a cell that is null
\* after the cast; when every column up to the first one with a null cell is
\* numeric, it is a NullValue naming the row and column of a null cell.
C12_NullRejected ==
    /\ (Converted /\ NullCells(Handed) # {})
       => /\ dense.status = "err"
          /\ NoPredict(MainThread)
          /\ dense.data = <<>>
          /\ ErrorClass(dense.description) \in {"NullValue", "CastFailure"}
          /\ ErrorClass(dense.description) = "NullValue"
                => Cast(Handed[Named[2]])[Named[1]] = <<>>
          /\ ErrorClass(dense.description) = "CastFailure"
                => ~CastOk(Handed[Named[2]])
          /\ NumericToFirstNull(Handed)
                => /\ ErrorClass(dense.description) = "NullValue"
                   /\ Named \in NullCells(Handed)
    /\ \A r \in 1..bframe.rows, c \in 1..bframe.features :
          bframe.writes[(r - 1) * bframe.features + c] > 0
          => bframe.table[c].cells[r] # <<>>

\* A single null, at row 2 of column 1, is reported as row 2, col 1.
C12_Witness ==
    /\ dense.op = "predict_dataframe"
    /\ NullCells(df) = {<<3, 2>>}
    /\ dense.status = "err"
    /\ ErrorClass(dense.description) = "NullValue"
    /\ dense.row = 2 /\ dense.col = 1
    /\ NoPredict(MainThread)

\* Every column of the table has a cast to f32 that converts each of its cells.
Castable(table) ==
    \A c \in 1..Width(table) :
        /\ CastOk(table[c])
        /\ \A r \in 1..Height(table) : Cast(table[c])[r] # <<>>

\* The table has rows, columns and no null cell.
Full(table) == Height(table) >= 1 /\ Width(table) >= 1 /\ NullCells(table) = {}

\* dense holds Ok((buffer, R, C)) for the table: R * C elements, the coerced
\* cell (r, c) at r * C + c, each position written once.
RowMajor(table) ==
    /\ dense.status = "ok"
    /\ dense.rows = Height(table) /\ dense.features = Width(table)
    /\ Len(dense.data) = Height(table) * Width(table)
    /\ \A r \in 1..Height(table), c \in 1..Width(table) :
          /\ dense.data[(r - 1) * Width(table) + c] = Cast(table[c])[r][1]
          /\ dense.writes[(r - 1) * Width(table) + c] = 1

Narrowed == dense.status # "none" /\ dense.op = "predict_dataframe_with_columns"

Present(name) == \E c \in 1..Width(df) : df[c].name = name

\* The column of the caller's DataFrame that has the name.
ColumnNamed(name) == df[CHOOSE c \in 1..Width(df) : df[c].name = name]

\* Feature i of the buffer holds the coerced cells of the i-th name asked for.
FeaturesAsAsked ==
    /\ dense.features = Len(columns)
    /\ dense.rows = Height(df)
    /\ Len(dense.data) = Height(df) * Len(columns)
    /\ \A i \in 1..Len(columns), r \in 1..Height(df) :
          dense.data[(r - 1) * Len(columns) + i] = Cast(ColumnNamed(columns[i]))[r][1]

\* C14 (as claimed): with a name that is absent the call fails with
\* ColumnNotFound and predict is not begun; otherwise the feature count is
\* the number of names and feature i holds the values of the i-th name.
C14_PresentNamesConverted ==
    Narrowed =>
        IF \E i \in 1..Len(columns) : ~Present(columns[i])
        THEN /\ dense.status = "err"
             /\ ErrorClass(dense.description) = "ColumnNotFound"
             /\ NoPredict(MainThread)
        ELSE dense.status = "ok" /\ FeaturesAsAsked

\* C14 (amended): with a name that is absent, or asked for twice, the call
\* fails with ColumnNotFound before any conversion and predict is not begun;
\* otherwise the conversion runs on the columns asked for, in the order asked
\* for: it returns a buffer exactly when there is a name, a row, and every
\* column asked for casts to f32 with no cell null after the cast, and then
\* the feature count is the number of names and feature i holds the coerced
\* values of the i-th name.
C14_ColumnSubset ==
    /\ Narrowed =>
          IF ~SelectOk(df, columns)
          THEN /\ dense.status = "err"
               /\ ErrorClass(dense.description) = "ColumnNotFound"
               /\ dense.data = <<>>
               /\ NoPredict(MainThread)
          ELSE /\ ErrorClass(dense.description) # "ColumnNotFound"
               /\ dense.status = "ok" <=>
                     /\ Len(columns) >= 1 /\ Height(df) >= 1
                     /\ \A i \in 1..Len(columns) :
                           /\ CastOk(ColumnNamed(columns[i]))
                           /\ \A r \in 1..Height(df) :
                                 Cast(ColumnNamed(columns[i]))[r] # <<>>
               /\ dense.status = "ok" => FeaturesAsAsked
    /\ (bframe.op = "predict_dataframe_with_columns" /\ bpc # "select")
       => /\ SelectOk(df, columns)
          /\ ColumnNames(bframe.table) = columns

\* Columns [a, b], asked for as [b]: one feature, the values of b.
C14_Witness ==
    /\ Narrowed /\ dense.status = "ok"
    /\ ColumnNames(df) = <<"a", "b">>
    /\ columns = <<"b">>
    /\ dense.features = 1
    /\ dense.rows = MaxHeight
    /\ \A r \in 1..Height(df) : dense.data[r] = Cast(df[2])[r][1]

\* The column fails the conversion: it has no cast to f32, or a cell of it
\* is null after the cast.
FailsAt(table, c) ==
    \/ ~CastOk(table[c])
    \/ \E r \in 1..Height(table) : Cast(table[c])[r] = <<>>

\* The lowest-index column that fails the conversion.
FirstFailing(table) ==
    CHOOSE c \in 1..Width(table) :
        FailsAt(table, c) /\ \A b \in 1..(c - 1) : ~FailsAt(table, b)

\* The lowest row of the column that is null after the cast.
FirstNullRow(table, c) ==
    CHOOSE r \in 1..Height(table) :
        /\ Cast(table[c])[r] = <<>>
        /\ \A q \in 1..(r - 1) : Cast(table[c])[q] # <<>>

\* The first null cell of the table in column-then-row order.
FirstNull(table) ==
    CHOOSE rc \in NullCells(table) :
        \A other \in NullCells(table) :
            rc[2] < other[2] \/ (rc[2] = other[2] /\ rc[1] <= other[1])

\* The lowest-index column before column c that has no cast to f32, 0 if none.
UncastableBefore(table, c) ==
    IF \E b \in 1..(c - 1) : ~CastOk(table[b])
    THEN CHOOSE b \in 1..(c - 1) :
             ~CastOk(table[b]) /\ \A a \in 1..(b - 1) : CastOk(table[a])
    ELSE 0

====
